---- MODULE Spec2Model ----
(***************************************************************************)
(* A model of facedancer/future/endpoint.py: one USBEndpoint instance, the  *)
(* and the device that owns it.  Every method of the class is one action;  *)
(* the value it returns, the exception it raises, the log line it emits    *)
(* and the request object it was handed are recorded in `ret`.             *)
(***************************************************************************)
EXTENDS Integers, Sequences, FiniteSets, TLC

(***************************************************************************)
(* Bounds of the model.                                                     *)
(***************************************************************************)
MaxNumber == 17     \* endpoint numbers 0..MaxNumber (16 and 17 are malformed)
MaxCalls  == 1      \* calls the device accepts before the model stops sending

(***************************************************************************)
(* Python's integer operators on non-negative integers.                     *)
(***************************************************************************)
RECURSIVE BitAnd(_, _)
BitAnd(x, y) ==
    IF x = 0 \/ y = 0 THEN 0
    ELSE (x % 2) * (y % 2) + 2 * BitAnd(x \div 2, y \div 2)

RECURSIVE BitOr(_, _)
BitOr(x, y) ==
    IF x = 0 THEN y
    ELSE IF y = 0 THEN x
    ELSE (IF x % 2 = 1 \/ y % 2 = 1 THEN 1 ELSE 0) + 2 * BitOr(x \div 2, y \div 2)

ShiftLeft(x, n)  == x * (2 ^ n)
ShiftRight(x, n) == x \div (2 ^ n)

(***************************************************************************)
(* The enumerations of facedancer/future/types.py.                          *)
(***************************************************************************)
DIR_OUT == "OUT"
DIR_IN  == "IN"
USBDirection == {DIR_OUT, DIR_IN}

CONTROL     == 0
ISOCHRONOUS == 1
BULK        == 2
INTERRUPT   == 3
USBTransferType == {CONTROL, ISOCHRONOUS, BULK, INTERRUPT}

NONE     == 0
ASYNC    == 1
ADAPTIVE == 2
SYNC     == 3
USBSynchronizationType == {NONE, ASYNC, ADAPTIVE, SYNC}

DATA              == 0
FEEDBACK          == 1
IMPLICIT_FEEDBACK == 2
USBUsageType == {DATA, FEEDBACK, IMPLICIT_FEEDBACK}

CLEAR_FEATURE == "CLEAR_FEATURE"

(***************************************************************************)
(* Values of the model.                                                     *)
(***************************************************************************)
None      == "None"         \* parent = None
Interface == "Interface"    \* a parent whose get_device() returns the device

DefaultMaxPacketSize == 64
DefaultInterval      == 0

Numbers         == 0 .. MaxNumber
WideNumbers     == {1, 16, 256}
MaxPacketSizes  == {0, 1, 64, 512, 1023, 65535, 65536}
Intervals       == {0, 255, 256}
DataValues      == {<<>>, <<1, 2, 3>>}
Candidates      == {0, 1, 15, 129, 143, 241, 255}
DeviceOutcomes  == {"none", "IOError"}

VARIABLES
    number, direction,
    transfer_type, synchronization_type, usage_type,
    max_packet_size, interval, parent,
    _request_handler_methods,
    device_calls, device_raised,
    ret

fields == <<number, direction, transfer_type, synchronization_type,
            usage_type, max_packet_size, interval, parent>>
device == <<device_calls, device_raised>>
vars   == <<fields, _request_handler_methods, device, ret>>

(***************************************************************************)
(* The record of a call: its name, arguments, return value, the exception   *)
(* that left it and the log records it emitted.  Every field has one type.  *)
(***************************************************************************)
NoArgs  == [data |-> <<>>, blocking |-> FALSE, endpoint_number |-> 0,
            direction |-> DIR_OUT, other |-> 0]
NoValue == [kind |-> "None", int |-> 0, bool |-> FALSE, bytes |-> <<>>,
            handlers |-> <<>>]

IntValue(v)      == [NoValue EXCEPT !.kind = "int", !.int = v]
BoolValue(b)     == [NoValue EXCEPT !.kind = "bool", !.bool = b]
BytesValue(bs)   == [NoValue EXCEPT !.kind = "bytes", !.bytes = bs]
HandlersValue(h) == [NoValue EXCEPT !.kind = "handlers", !.handlers = h]

\* No request object was passed to the call.
NoRequest == [passed |-> FALSE, to_this_endpoint |-> FALSE,
              acknowledged |-> 0, stalled |-> 0]

Return(op, args, value) ==
    [op |-> op, args |-> args, value |-> value, raised |-> "none", log |-> <<>>,
     request |-> NoRequest]
Raise(op, args, exception) ==
    [op |-> op, args |-> args, value |-> NoValue, raised |-> exception, log |-> <<>>,
     request |-> NoRequest]


(***************************************************************************)
(* Collaborators that live outside endpoint.py.                             *)
(***************************************************************************)
\* request.get_request_handler_methods(self): the bound methods of the
\* endpoint tagged as request handlers, here the one method decorated at
\* endpoint.py:102, with its request-number selector.
get_request_handler_methods ==
    << [number |-> CLEAR_FEATURE, handler |-> "handle_clear_feature_request"] >>

\* request.to_this_endpoint: the recipient-scope predicate of the handler.
to_this_endpoint(req) == req.to_this_endpoint

\* bytearray(iterable of ints): every element must be in range(0, 256).
bytearray(xs) ==
    IF \A i \in DOMAIN xs : xs[i] \in 0 .. 255
    THEN [raised |-> "none", bytes |-> xs]
    ELSE [raised |-> "ValueError", bytes |-> <<>>]

\* A request object as the dispatcher passes it: fresh, neither acknowledged
\* nor stalled.
NewRequest(matches) ==
    [passed |-> TRUE, to_this_endpoint |-> matches, acknowledged |-> 0, stalled |-> 0]

\* request.acknowledge()
acknowledge(req) == [req EXCEPT !.acknowledged = @ + 1]

(***************************************************************************)
(* USBEndpoint: computed values.                                            *)
(***************************************************************************)
\* The direction test inverted: the mask is set for OUT.
direction_mask_for_out(d) == IF d = DIR_OUT THEN 128 ELSE 0

direction_mask(d) == IF d = DIR_IN THEN 128 ELSE 0

address_for_number(endpoint_number, d) ==
    BitOr(endpoint_number, direction_mask(d))

address == address_for_number(number, direction)

get_address == address

\* usage_type shifted by 3, so that it overlaps synchronization_type.
attributes_usage_shift_3 ==
    BitOr(BitOr(BitAnd(transfer_type, 3),
                ShiftLeft(BitAnd(synchronization_type, 3), 2)),
          ShiftLeft(BitAnd(usage_type, 3), 3))

attributes ==
    BitOr(BitOr(BitAnd(transfer_type, 3),
                ShiftLeft(BitAnd(synchronization_type, 3), 2)),
          ShiftLeft(BitAnd(usage_type, 3), 4))

\* max_packet_size emitted high byte first.
get_descriptor_big_endian ==
    bytearray(<< 7,
                 5,
                 address,
                 attributes,
                 BitAnd(ShiftRight(max_packet_size, 8), 255),
                 BitAnd(max_packet_size, 255),
                 interval >>)

get_descriptor ==
    bytearray(<< 7,
                 5,
                 address,
                 attributes,
                 BitAnd(max_packet_size, 255),
                 BitAnd(ShiftRight(max_packet_size, 8), 255),
                 interval >>)

get_identifier == address

masked_other == 143

matches_identifier(other) == get_identifier = masked_other

_request_handlers == _request_handler_methods

\* The name `req` of endpoint.py:106 is bound in no scope of the module:
\* the parameter is `request`, and lines 6-15 import no `req`.
req_is_bound == FALSE

\* The address (with the direction bit) passed in place of the number.
send_in_packets_call_address(data, blocking) ==
    [endpoint_number |-> address, data |-> data,
     packet_size |-> max_packet_size, blocking |-> blocking]

\* The arguments send() hands to device._send_in_packets.
send_in_packets_call(data, blocking) ==
    [endpoint_number |-> number, data |-> data,
     packet_size |-> max_packet_size, blocking |-> blocking]


(***************************************************************************)
(* Construction: the dataclass __init__ stores the arguments as they are    *)
(* given and __post_init__ builds the handler table.                        *)
(***************************************************************************)
post_init ==
    /\ _request_handler_methods = get_request_handler_methods
    /\ device_calls = <<>>
    /\ device_raised = "none"
    /\ ret = Return("__init__", NoArgs, NoValue)

\* Endpoints that differ in number and direction, and one left without a
\* parent (the default of the field).
AddressingEndpoints ==
    /\ number \in Numbers
    /\ direction \in USBDirection
    /\ transfer_type = BULK
    /\ synchronization_type = NONE
    /\ usage_type = DATA
    /\ max_packet_size = DefaultMaxPacketSize
    /\ interval = DefaultInterval
    /\ parent \in (IF number = 1 THEN {None, Interface} ELSE {Interface})

\* Endpoints that differ in the three attribute enumerations.
AttributeEndpoints ==
    /\ number = 1
    /\ direction = DIR_IN
    /\ transfer_type \in USBTransferType
    /\ synchronization_type \in USBSynchronizationType
    /\ usage_type \in USBUsageType
    /\ max_packet_size = DefaultMaxPacketSize
    /\ interval = DefaultInterval
    /\ parent = Interface

\* Endpoints that differ in the descriptor's numeric fields: either in
\* number and direction, or in max_packet_size and interval.
DescriptorEndpoints ==
    /\ \/ /\ number \in WideNumbers
          /\ direction \in USBDirection
          /\ max_packet_size = DefaultMaxPacketSize
          /\ interval = DefaultInterval
       \/ /\ number = 1
          /\ direction = DIR_IN
          /\ max_packet_size \in MaxPacketSizes
          /\ interval \in Intervals
    /\ transfer_type = BULK
    /\ synchronization_type = NONE
    /\ usage_type = DATA
    /\ parent = Interface

Init == AddressingEndpoints /\ post_init

InitAttributes == AttributeEndpoints /\ post_init

InitDescriptor == DescriptorEndpoints /\ post_init

(***************************************************************************)
(* USBEndpoint: one action per method.                                      *)
(***************************************************************************)
get_device == IF parent = None THEN "AttributeError" ELSE "none"

send ==
    \E data \in DataValues, blocking \in BOOLEAN :
        LET args == [NoArgs EXCEPT !.data = data, !.blocking = blocking] IN
        IF get_device # "none"
        THEN /\ ret' = Raise("send", args, get_device)
             /\ UNCHANGED <<fields, _request_handler_methods, device>>
        ELSE /\ Len(device_calls) < MaxCalls
             /\ \E outcome \in DeviceOutcomes :
                    /\ device_calls' = Append(device_calls,
                                               send_in_packets_call(data, blocking))
                    /\ device_raised' = outcome
                    /\ ret' = IF outcome = "none"
                              THEN Return("send", args, NoValue)
                              ELSE Raise("send", args, outcome)
             /\ UNCHANGED <<fields, _request_handler_methods>>

handle_data_received ==
    \E data \in DataValues :
        /\ ret' = [Return("handle_data_received", [NoArgs EXCEPT !.data = data], NoValue)
                     EXCEPT !.log = << [level |-> "info", number |-> number,
                                        length |-> Len(data)] >>]
        /\ UNCHANGED <<fields, _request_handler_methods, device>>

handle_data_requested ==
    /\ ret' = Return("handle_data_requested", NoArgs, NoValue)
    /\ UNCHANGED <<fields, _request_handler_methods, device>>

handle_buffer_empty ==
    /\ ret' = Return("handle_buffer_empty", NoArgs, NoValue)
    /\ UNCHANGED <<fields, _request_handler_methods, device>>

handle_clear_feature_request ==
    \E matches \in BOOLEAN :
        LET req == NewRequest(matches) IN
        /\ ret' = IF ~to_this_endpoint(req)
                  THEN \* the predicate fails: the body is not run
                       [Return("handle_clear_feature_request", NoArgs, NoValue)
                          EXCEPT !.request = req]
                  ELSE IF ~req_is_bound
                  THEN \* building the debug message evaluates req.value
                       [Raise("handle_clear_feature_request", NoArgs, "NameError")
                          EXCEPT !.request = req]
                  ELSE [Return("handle_clear_feature_request", NoArgs, NoValue)
                          EXCEPT !.request = acknowledge(req),
                                 !.log = << [level |-> "debug", number |-> number,
                                             length |-> 0] >>]
        /\ UNCHANGED <<fields, _request_handler_methods, device>>

call_address_for_number ==
    \E n \in Numbers, d \in USBDirection :
        /\ ret' = Return("address_for_number",
                         [NoArgs EXCEPT !.endpoint_number = n, !.direction = d],
                         IntValue(address_for_number(n, d)))
        /\ UNCHANGED <<fields, _request_handler_methods, device>>

call_address ==
    /\ ret' = Return("address", NoArgs, IntValue(address))
    /\ UNCHANGED <<fields, _request_handler_methods, device>>

call_get_address ==
    /\ ret' = Return("get_address", NoArgs, IntValue(get_address))
    /\ UNCHANGED <<fields, _request_handler_methods, device>>

call_attributes ==
    /\ ret' = Return("attributes", NoArgs, IntValue(attributes))
    /\ UNCHANGED <<fields, _request_handler_methods, device>>

\* max_packet_size shifted in place while its high byte is emitted.
call_get_descriptor_shifts_field ==
    /\ ret' = IF get_descriptor.raised = "none"
              THEN Return("get_descriptor", NoArgs, BytesValue(get_descriptor.bytes))
              ELSE Raise("get_descriptor", NoArgs, get_descriptor.raised)
    /\ max_packet_size' = ShiftRight(max_packet_size, 8)
    /\ UNCHANGED <<number, direction, transfer_type, synchronization_type,
                   usage_type, interval, parent, _request_handler_methods, device>>

call_get_descriptor ==
    /\ ret' = IF get_descriptor.raised = "none"
              THEN Return("get_descriptor", NoArgs, BytesValue(get_descriptor.bytes))
              ELSE Raise("get_descriptor", NoArgs, get_descriptor.raised)
    /\ UNCHANGED <<fields, _request_handler_methods, device>>

call_get_identifier ==
    /\ ret' = Return("get_identifier", NoArgs, IntValue(get_identifier))
    /\ UNCHANGED <<fields, _request_handler_methods, device>>

call_matches_identifier ==
    \E other \in Candidates :
        /\ ret' = Return("matches_identifier", [NoArgs EXCEPT !.other = other],
                         BoolValue(matches_identifier(other)))
        /\ UNCHANGED <<fields, _request_handler_methods, device>>

\* The table held as an iterator that the first caller exhausts.
call_request_handlers_consumes ==
    /\ ret' = Return("_request_handlers", NoArgs, HandlersValue(_request_handlers))
    /\ _request_handler_methods' = <<>>
    /\ UNCHANGED <<fields, device>>

call_request_handlers ==
    /\ ret' = Return("_request_handlers", NoArgs, HandlersValue(_request_handlers))
    /\ UNCHANGED <<fields, _request_handler_methods, device>>

Next ==
    \/ send
    \/ handle_data_received
    \/ handle_data_requested
    \/ handle_buffer_empty
    \/ handle_clear_feature_request
    \/ call_address_for_number
    \/ call_address
    \/ call_get_address
    \/ call_attributes
    \/ call_get_descriptor
    \/ call_get_identifier
    \/ call_matches_identifier
    \/ call_request_handlers

Spec == Init /\ [][Next]_vars

SpecAttributes == InitAttributes /\ [][Next]_vars

SpecDescriptor == InitDescriptor /\ [][Next]_vars

(***************************************************************************)
(* Claims.                                                                  *)
(***************************************************************************)
FieldsInRange ==
    /\ number \in 0 .. 15
    /\ max_packet_size \in 0 .. 65535
    /\ interval \in 0 .. 255

\* number | (0x80 if IN else 0), written with + for a number of four bits.
ExpectedAddress(n, d) == n + (IF d = DIR_IN THEN 128 ELSE 0)

\* The attribute byte, written with arithmetic instead of bit operators.
ExpectedAttributes ==
    (transfer_type % 4) + 4 * (synchronization_type % 4) + 16 * (usage_type % 4)

\* C1: a CLEAR_FEATURE request addressed to this endpoint is acknowledged
\* exactly once by handle_clear_feature_request, which raises nothing.
C1_AcknowledgedOnce ==
    (ret.op = "handle_clear_feature_request" /\ ret.request.to_this_endpoint)
        => (ret.raised = "none" /\ ret.request.acknowledged = 1)

\* C2: matches_identifier(candidate) is true exactly when candidate and the
\* endpoint's address agree under the mask 0b10001111.
C2_MatchesMaskedCandidate ==
    ret.op = "matches_identifier"
        => (ret.value.bool <=> (BitAnd(ret.args.other, 143) = BitAnd(address, 143)))

\* C3: on an OUT endpoint (owned by a device) send fails with a direction
\* violation and the device's _send_in_packets is never called.
C3_SendOnOutRejected ==
    (direction = DIR_OUT /\ parent # None)
        => /\ device_calls = <<>>
           /\ ret.op = "send" => ret.raised = "DirectionViolation"

\* C4: no endpoint with a malformed number, max_packet_size or interval
\* exists, so every get_descriptor call is made on in-range fields and
\* returns bytes 4-5 that hold max_packet_size untruncated.
C4_MalformedRejected ==
    ret.op = "get_descriptor"
        => /\ FieldsInRange
           /\ ret.raised = "none"
           /\ ret.value.bytes[5] + 256 * ret.value.bytes[6] = max_packet_size

\* C5: with fields in range get_descriptor returns the seven bytes
\* 7, 5, address, attributes, max_packet_size low, max_packet_size high,
\* interval; bytes 4-5 decode little-endian to max_packet_size; the endpoint
\* 1/IN/BULK/64/0 yields 07 05 81 02 40 00 00.
C5_DescriptorLayout ==
    (ret.op = "get_descriptor" /\ FieldsInRange)
        => /\ ret.raised = "none"
           /\ Len(ret.value.bytes) = 7
           /\ ret.value.bytes = << 7, 5, ExpectedAddress(number, direction),
                                   ExpectedAttributes,
                                   max_packet_size % 256,
                                   (max_packet_size \div 256) % 256,
                                   interval >>
           /\ ret.value.bytes[5] + 256 * ret.value.bytes[6] = max_packet_size
           /\ (/\ number = 1 /\ direction = DIR_IN /\ transfer_type = BULK
               /\ synchronization_type = NONE /\ usage_type = DATA
               /\ max_packet_size = 64 /\ interval = 0)
                 => ret.value.bytes = <<7, 5, 129, 2, 64, 0, 0>>

C5_Witness ==
    /\ ret.op = "get_descriptor"
    /\ FieldsInRange
    /\ max_packet_size = 1023
    /\ ret.value.bytes = <<7, 5, 129, 2, 255, 3, interval>>

\* C6: for number in 0..15, address_for_number(number, direction) is
\* number | (0x80 if IN else 0), its bit 7 is set exactly for IN, and the
\* address property and get_address() return it for the endpoint's fields.
C6_AddressForNumber ==
    /\ (ret.op = "address_for_number" /\ ret.args.endpoint_number \in 0 .. 15)
          => /\ ret.value.int
                   = ExpectedAddress(ret.args.endpoint_number, ret.args.direction)
             /\ ((ret.value.int \div 128) % 2 = 1) <=> (ret.args.direction = DIR_IN)
    /\ (ret.op \in {"address", "get_address"} /\ number \in 0 .. 15)
          => /\ ret.value.int = ExpectedAddress(number, direction)
             /\ ((ret.value.int \div 128) % 2 = 1) <=> (direction = DIR_IN)

C6_Witness ==
    \/ /\ ret.op = "address_for_number"
       /\ ret.args.endpoint_number = 15
       /\ ret.args.direction = DIR_IN
       /\ ret.value.int = 143
    \/ /\ ret.op = "get_address"
       /\ number = 15
       /\ direction = DIR_OUT
       /\ ret.value.int = 15

\* C7: the attributes byte is (transfer_type & 3) | (synchronization_type & 3)
\* << 2 | (usage_type & 3) << 4: 0x02 for BULK/NONE/DATA, 0x15 for
\* ISOCHRONOUS/ASYNC/FEEDBACK, and below 64.
C7_AttributesByte ==
    ret.op = "attributes"
        => /\ ret.value.int = ExpectedAttributes
           /\ ret.value.int < 64
           /\ (transfer_type = BULK /\ synchronization_type = NONE
                 /\ usage_type = DATA) => ret.value.int = 2
           /\ (transfer_type = ISOCHRONOUS /\ synchronization_type = ASYNC
                 /\ usage_type = FEEDBACK) => ret.value.int = 21

C7_Witness ==
    /\ ret.op = "attributes"
    /\ transfer_type = ISOCHRONOUS
    /\ synchronization_type = ASYNC
    /\ usage_type = FEEDBACK
    /\ ret.value.int = 21

\* C8: after any sequence of operations the handler table is the one built
\* at construction, _request_handlers() returns it, and it holds the
\* CLEAR_FEATURE handler exactly once.
C8_HandlerTableImmutable ==
    /\ _request_handler_methods = get_request_handler_methods
    /\ Cardinality({i \in DOMAIN _request_handler_methods :
            _request_handler_methods[i].number = CLEAR_FEATURE}) = 1
    /\ ret.op = "_request_handlers"
          => /\ ret.value.handlers = get_request_handler_methods
             /\ Cardinality({i \in DOMAIN ret.value.handlers :
                     ret.value.handlers[i].handler = "handle_clear_feature_request"}) = 1

C8_Witness ==
    /\ ret.op = "_request_handlers"
    /\ Len(device_calls) > 0
    /\ Len(ret.value.handlers) = 1

\* C9: a send on an IN endpoint owned by a device makes exactly one call of
\* _send_in_packets, with the endpoint's number, the data as given,
\* packet_size = max_packet_size and the caller's blocking; what the device
\* raises leaves send unchanged.
C9_SendForwardsOnce ==
    [][(ret'.op = "send" /\ direction = DIR_IN /\ parent # None)
          => /\ device_calls' = Append(device_calls,
                    [endpoint_number |-> number, data |-> ret'.args.data,
                     packet_size |-> max_packet_size,
                     blocking |-> ret'.args.blocking])
             /\ ret'.raised = device_raised']_vars

C9_Witness ==
    /\ ret.op = "send"
    /\ direction = DIR_IN
    /\ number = 15
    /\ Len(device_calls) = 1
    /\ device_calls[1].data = <<1, 2, 3>>
    /\ ret.raised = "IOError"

\* C10: a get_descriptor call leaves the fields, the handler table and the
\* device untouched, touches no request object, and a second call right
\* after it would return the same bytes.
C10_GetDescriptorPure ==
    [][ret'.op = "get_descriptor"
          => /\ UNCHANGED <<fields, _request_handler_methods, device>>
             /\ ret'.request = NoRequest
             /\ ret'.log = <<>>
             /\ ret'.raised = get_descriptor'.raised
             /\ ret'.value.bytes = get_descriptor'.bytes]_vars

C10_Witness ==
    /\ ret.op = "get_descriptor"
    /\ ret.raised = "none"
    /\ Len(device_calls) > 0
    /\ max_packet_size = 65535

TypeOK ==
    /\ number \in Nat
    /\ direction \in USBDirection
    /\ Len(device_calls) <= MaxCalls
    /\ device_raised \in DeviceOutcomes
====
